---- MODULE Spec2Model ----
(***************************************************************************)
(* A model of the etheremon encounter game: the EncounterSystem contract   *)
(* (the ledger side: throwBall, flee, attack over the Encounter, OwnedBy,  *)
(* Monster, Health and Strength tables) and the client's action layer of   *)
(* setup() (moveTo, moveBy, spawn, throwBall, attack, fleeEncounter over   *)
(* overridable components, worldSend and the txReduced$ stream).           *)
(***************************************************************************)
EXTENDS Integers, Sequences, FiniteSets, TLC

VARIABLES
  Encounter,   \* ledger table: player -> [actionCount, monsters]
  OwnedBy,     \* ledger table: monster -> owner, None while unset
  Monster,     \* ledger table: monster -> TRUE while the Monster record exists
  Health,      \* ledger table: monster -> uint32
  Strength,    \* ledger table: player -> uint32
  Position,    \* ledger table: player -> <<x, y>>, None before the spawn
  Player,      \* ledger table: player -> TRUE once spawned
  receipts,    \* the calls executed so far, oldest first, each with its outcome
  fastTxExecutor, \* client: TRUE when setup() created an executor (a signer is bound)
  playerEntity,   \* client: result.playerEntity, None when there is none
  store,       \* client: the replica's authoritative component values
  overrides,   \* client: the live overrides, oldest first
  calls,       \* client: the action calls made so far, each with its position
  mempool,     \* the transactions submitted and not yet executed, oldest first
  mined,       \* the hashes of the executed transactions, in execution order
  emitted,     \* the hashes txReduced$ has emitted, in emission order
  ops          \* the addOverride and removeOverride calls made directly, oldest first

ledgerVars == <<Encounter, OwnedBy, Monster, Health, Strength, Position, Player>>
clientVars == <<fastTxExecutor, playerEntity, store, overrides, calls>>
netVars == <<mempool, mined, emitted, ops>>
vars == <<Encounter, OwnedBy, Monster, Health, Strength, Position, Player, receipts,
          fastTxExecutor, playerEntity, store, overrides, calls, mempool, mined, emitted, ops>>

(* ------------------------------ bounds -------------------------------- *)
\* Largest value an initial Health or Strength entry is drawn from.
MaxStat == 2
\* Number of contract calls one behaviour executes.
MaxTxs == 3
\* The derived values keccak256 may yield are drawn from 0..MaxRand.
MaxRand == 1

(* ----------------------------- entities ------------------------------- *)
None == "none"
Players == {"p1", "p2"}
Monsters == {"m1", "m2", "m3"}
\* The monster lists an encounter of player p may be created with.
InitMonsters(p) == IF p = "p1" THEN {<<"m1">>, <<"m3", "m1">>} ELSE {<<"m2">>}
NoRecord == [actionCount |-> 0, monsters |-> <<>>]

(* ------------------- tables (generated table libraries) ---------------- *)
\* Encounter.get(player): the stored record, zero values when none is stored.
EncounterGet(player) == Encounter[player]
\* Encounter.deleteRecord(player): the record reads as zero values afterwards.
EncounterDeleteRecord(player) == [Encounter EXCEPT ![player] = NoRecord]
EncounterSetActionCount(player, n) == [Encounter EXCEPT ![player].actionCount = n]

(* --------------------------- EncounterSystem --------------------------- *)
Receipt(func, player, rand, status) ==
  [func |-> func, player |-> player, rand |-> rand, status |-> status]

\* A reverted call: the ledger state is as before, the receipt tells why.
Revert(func, player, rand, why) ==
  /\ receipts' = Append(receipts, Receipt(func, player, rand, why))
  /\ UNCHANGED ledgerVars

Success(func, player, rand) ==
  receipts' = Append(receipts, Receipt(func, player, rand, "ok"))

\* throwBall with the escape threshold one too low (actionCount > 1).
throwBallEarlyEscape(player, rand) ==
  LET actionCount == EncounterGet(player).actionCount
      monsters == EncounterGet(player).monsters
  IN
  IF actionCount = 0 THEN Revert("throwBall", player, rand, "not in this encounter")
  ELSE IF Len(monsters) = 0 THEN Revert("throwBall", player, rand, "panic: index out of bounds")
  ELSE
    LET monster == monsters[1] IN
    /\ Success("throwBall", player, rand)
    /\ IF rand % 2 = 0
       THEN /\ OwnedBy' = [OwnedBy EXCEPT ![monster] = player]
            /\ Encounter' = EncounterDeleteRecord(player)
            /\ UNCHANGED <<Monster, Health, Strength, Position, Player>>
       ELSE IF actionCount > 1
       THEN /\ Encounter' = EncounterDeleteRecord(player)
            /\ Monster' = [Monster EXCEPT ![monster] = FALSE]
            /\ UNCHANGED <<OwnedBy, Health, Strength, Position, Player>>
       ELSE /\ Encounter' = EncounterSetActionCount(player, actionCount + 1)
            /\ UNCHANGED <<OwnedBy, Monster, Health, Strength, Position, Player>>

\* throwBall whose miss restarts the count at 1 instead of incrementing it.
throwBallResetCount(player, rand) ==
  LET actionCount == EncounterGet(player).actionCount
      monsters == EncounterGet(player).monsters
  IN
  IF actionCount = 0 THEN Revert("throwBall", player, rand, "not in this encounter")
  ELSE IF Len(monsters) = 0 THEN Revert("throwBall", player, rand, "panic: index out of bounds")
  ELSE
    LET monster == monsters[1] IN
    /\ Success("throwBall", player, rand)
    /\ IF rand % 2 = 0
       THEN /\ OwnedBy' = [OwnedBy EXCEPT ![monster] = player]
            /\ Encounter' = EncounterDeleteRecord(player)
            /\ UNCHANGED <<Monster, Health, Strength, Position, Player>>
       ELSE IF actionCount > 2
       THEN /\ Encounter' = EncounterDeleteRecord(player)
            /\ Monster' = [Monster EXCEPT ![monster] = FALSE]
            /\ UNCHANGED <<OwnedBy, Health, Strength, Position, Player>>
       ELSE /\ Encounter' = EncounterSetActionCount(player, 1)
            /\ UNCHANGED <<OwnedBy, Monster, Health, Strength, Position, Player>>

\* throwBall with the escape threshold one too high (actionCount > 3).
throwBallLateEscape(player, rand) ==
  LET actionCount == EncounterGet(player).actionCount
      monsters == EncounterGet(player).monsters
  IN
  IF actionCount = 0 THEN Revert("throwBall", player, rand, "not in this encounter")
  ELSE IF Len(monsters) = 0 THEN Revert("throwBall", player, rand, "panic: index out of bounds")
  ELSE
    LET monster == monsters[1] IN
    /\ Success("throwBall", player, rand)
    /\ IF rand % 2 = 0
       THEN /\ OwnedBy' = [OwnedBy EXCEPT ![monster] = player]
            /\ Encounter' = EncounterDeleteRecord(player)
            /\ UNCHANGED <<Monster, Health, Strength, Position, Player>>
       ELSE IF actionCount > 3
       THEN /\ Encounter' = EncounterDeleteRecord(player)
            /\ Monster' = [Monster EXCEPT ![monster] = FALSE]
            /\ UNCHANGED <<OwnedBy, Health, Strength, Position, Player>>
       ELSE /\ Encounter' = EncounterSetActionCount(player, actionCount + 1)
            /\ UNCHANGED <<OwnedBy, Monster, Health, Strength, Position, Player>>

throwBall(player, rand) ==
  LET actionCount == EncounterGet(player).actionCount
      monsters == EncounterGet(player).monsters
  IN
  IF actionCount = 0 THEN Revert("throwBall", player, rand, "not in this encounter")
  ELSE IF Len(monsters) = 0 THEN Revert("throwBall", player, rand, "panic: index out of bounds")
  ELSE
    LET monster == monsters[1] IN
    /\ Success("throwBall", player, rand)
    /\ IF rand % 2 = 0
       THEN /\ OwnedBy' = [OwnedBy EXCEPT ![monster] = player]
            /\ Encounter' = EncounterDeleteRecord(player)
            /\ UNCHANGED <<Monster, Health, Strength, Position, Player>>
       ELSE IF actionCount > 2
       THEN /\ Encounter' = EncounterDeleteRecord(player)
            /\ Monster' = [Monster EXCEPT ![monster] = FALSE]
            /\ UNCHANGED <<OwnedBy, Health, Strength, Position, Player>>
       ELSE /\ Encounter' = EncounterSetActionCount(player, actionCount + 1)
            /\ UNCHANGED <<OwnedBy, Monster, Health, Strength, Position, Player>>

\* flee that only zeroes the action count and keeps the monster list.
fleeKeepMonsters(player) ==
  /\ Success("flee", player, 0)
  /\ Encounter' = EncounterSetActionCount(player, 0)
  /\ UNCHANGED <<OwnedBy, Monster, Health, Strength, Position, Player>>

\* flee that requires an encounter, as throwBall does.
fleeRequireEncounter(player) ==
  IF EncounterGet(player).actionCount = 0
  THEN Revert("flee", player, 0, "not in this encounter")
  ELSE /\ Success("flee", player, 0)
       /\ Encounter' = EncounterDeleteRecord(player)
       /\ UNCHANGED <<OwnedBy, Monster, Health, Strength, Position, Player>>

\* flee that also deletes the Monster record, as an escape does.
fleeDestroysMonster(player) ==
  /\ Success("flee", player, 0)
  /\ Encounter' = EncounterDeleteRecord(player)
  /\ Monster' = IF Len(EncounterGet(player).monsters) > 0
                THEN [Monster EXCEPT ![EncounterGet(player).monsters[1]] = FALSE]
                ELSE Monster
  /\ UNCHANGED <<OwnedBy, Health, Strength, Position, Player>>

flee(player) ==
  /\ Success("flee", player, 0)
  /\ Encounter' = EncounterDeleteRecord(player)
  /\ UNCHANGED <<OwnedBy, Monster, Health, Strength, Position, Player>>

\* attack that floors the health at zero instead of reverting.
attackClamped(player) ==
  LET monsters == EncounterGet(player).monsters IN
  IF Len(monsters) = 0 THEN Revert("attack", player, 0, "panic: index out of bounds")
  ELSE
    LET monster == monsters[1]
        playerDamage == Strength[player]
        monsterHealth == Health[monster]
    IN
    /\ Success("attack", player, 0)
    /\ Health' = [Health EXCEPT ![monster] =
                    IF monsterHealth < playerDamage THEN 0 ELSE monsterHealth - playerDamage]
    /\ UNCHANGED <<Encounter, OwnedBy, Monster, Strength, Position, Player>>

attack(player) ==
  LET monsters == EncounterGet(player).monsters IN
  IF Len(monsters) = 0 THEN Revert("attack", player, 0, "panic: index out of bounds")
  ELSE
    LET monster == monsters[1]
        playerDamage == Strength[player]
        monsterHealth == Health[monster]
    IN
    \* uint32 - uint32 under pragma >=0.8.0 is checked: below zero it panics.
    IF monsterHealth - playerDamage < 0
    THEN Revert("attack", player, 0, "panic: arithmetic underflow")
    ELSE /\ Success("attack", player, 0)
         /\ Health' = [Health EXCEPT ![monster] = monsterHealth - playerDamage]
         /\ UNCHANGED <<Encounter, OwnedBy, Monster, Strength, Position, Player>>

(* ------------------------ the contract on its own ---------------------- *)
\* Encounters are created (by the map system, on a move) with actionCount 1
\* and a fresh monster list; every monster starts with the same health.
LedgerInit ==
  /\ Encounter \in {e \in [Players -> [actionCount : {0, 1}, monsters : {<<>>} \cup InitMonsters("p1") \cup InitMonsters("p2")]] :
        \A p \in Players :
           \/ e[p] = NoRecord
           \/ e[p].actionCount = 1 /\ e[p].monsters \in InitMonsters(p)}
  /\ OwnedBy = [m \in Monsters |-> None]
  /\ Monster = [m \in Monsters |-> TRUE]
  /\ \E h \in 0..MaxStat : Health = [m \in Monsters |-> h]
  /\ \E s \in 0..MaxStat : Strength = [p \in Players |-> IF p = "p1" THEN s ELSE 1]
  /\ Position = [p \in Players |-> <<>>]
  /\ Player = [p \in Players |-> FALSE]
  /\ receipts = <<>>
  /\ fastTxExecutor = FALSE
  /\ playerEntity = None
  /\ store = <<>>
  /\ overrides = <<>>
  /\ calls = <<>>
  /\ mempool = <<>>
  /\ mined = <<>>
  /\ emitted = <<>>
  /\ ops = <<>>

TxThrowBall ==
  /\ Len(receipts) < MaxTxs
  /\ \E player \in Players, rand \in 0..MaxRand : throwBall(player, rand)
  /\ UNCHANGED <<clientVars, netVars>>

TxFlee ==
  /\ Len(receipts) < MaxTxs
  /\ \E player \in Players : flee(player)
  /\ UNCHANGED <<clientVars, netVars>>

TxAttack ==
  /\ Len(receipts) < MaxTxs
  /\ \E player \in Players : attack(player)
  /\ UNCHANGED <<clientVars, netVars>>

LedgerNext == TxThrowBall \/ TxFlee \/ TxAttack

LedgerSpec == LedgerInit /\ [][LedgerNext]_vars

(* ----------------------- properties of the contract -------------------- *)
\* The step executes one call of func by player.
Executes(func, player) ==
  /\ Len(receipts') = Len(receipts) + 1
  /\ receipts'[Len(receipts')].func = func
  /\ receipts'[Len(receipts')].player = player
\* The receipt of the call the step executes.
NewReceipt == receipts'[Len(receipts')]
Engaged(player) == Encounter[player].actionCount >= 1
\* The receipts i, i+1 are calls of f then g by the same player.
InARow(i, f, g) ==
  /\ i + 1 <= Len(receipts)
  /\ receipts[i].func = f /\ receipts[i + 1].func = g
  /\ receipts[i].player = receipts[i + 1].player

\* C2: throwBall by an Engaged player succeeds; an even derived value deletes
\* the encounter and makes the player the first monster's owner; an odd one
\* with actionCount > 2 deletes the encounter and the Monster record and sets no
\* owner; an odd one with actionCount <= 2 keeps the encounter and its monster
\* list, changes no owner and no Monster record, and adds one to actionCount.
ThrowResolution ==
  [][\A p \in Players : (Executes("throwBall", p) /\ Engaged(p)) =>
       LET ac == Encounter[p].actionCount
           m == Encounter[p].monsters[1]
           r == NewReceipt
       IN
       /\ r.status = "ok"
       /\ (r.rand % 2 = 0) =>
             /\ Encounter'[p] = NoRecord
             /\ OwnedBy' = [OwnedBy EXCEPT ![m] = p]
             /\ Monster' = Monster
       /\ (r.rand % 2 = 1 /\ ac > 2) =>
             /\ Encounter'[p] = NoRecord
             /\ Monster' = [Monster EXCEPT ![m] = FALSE]
             /\ OwnedBy' = OwnedBy
       /\ (r.rand % 2 = 1 /\ ac <= 2) =>
             /\ Encounter'[p] = [actionCount |-> ac + 1, monsters |-> Encounter[p].monsters]
             /\ OwnedBy' = OwnedBy
             /\ Monster' = Monster]_vars

\* Two misses and then the escape, by p1 on the list <<m3, m1>>.
ThrowResolutionWitness ==
  /\ Len(receipts) = 3
  /\ \A i \in 1..3 : receipts[i] = Receipt("throwBall", "p1", 1, "ok")
  /\ Encounter["p1"] = NoRecord
  /\ ~Monster["m3"] /\ Monster["m1"]
  /\ OwnedBy["m3"] = None

\* C3: throwBall and attack by a player with no encounter revert and leave
\* every table as it was.
RejectedWhenNotEngaged ==
  [][\A p \in Players :
       ((Executes("throwBall", p) \/ Executes("attack", p)) /\ ~Engaged(p)) =>
          /\ NewReceipt.status # "ok"
          /\ UNCHANGED ledgerVars]_vars

\* A throw and an attack rejected right after the flee that deleted the encounter.
RejectedWhenNotEngagedWitness ==
  /\ Len(receipts) = 3
  /\ InARow(1, "flee", "throwBall") /\ InARow(2, "throwBall", "attack")
  /\ receipts[2].status = "not in this encounter"
  /\ receipts[3].status = "panic: index out of bounds"

\* C4 as stated: attack by an Engaged player always succeeds and stores
\* health - strength, negative when strength exceeds the health.
AttackNeverClampsNorFails ==
  [][\A p \in Players : (Executes("attack", p) /\ Engaged(p)) =>
       LET m == Encounter[p].monsters[1] IN
       /\ NewReceipt.status = "ok"
       /\ Health' = [Health EXCEPT ![m] = Health[m] - Strength[p]]]_vars

\* C4 as amended: attack by an Engaged player stores health - strength when
\* strength <= health; when strength exceeds the health the call reverts and
\* every table, the health included, is as before; no health is ever negative.
AttackArithmetic ==
  [][\A p \in Players : (Executes("attack", p) /\ Engaged(p)) =>
       LET m == Encounter[p].monsters[1] IN
       /\ \A x \in Monsters : Health'[x] >= 0
       /\ IF Strength[p] <= Health[m]
          THEN /\ NewReceipt.status = "ok"
               /\ Health' = [Health EXCEPT ![m] = Health[m] - Strength[p]]
               /\ UNCHANGED <<Encounter, OwnedBy, Monster, Strength, Position, Player>>
          ELSE /\ NewReceipt.status = "panic: arithmetic underflow"
               /\ UNCHANGED ledgerVars]_vars

\* An attack that lowered the health and a next one, stronger than what is
\* left, that reverted.
AttackArithmeticWitness ==
  /\ Len(receipts) = 2
  /\ InARow(1, "attack", "attack")
  /\ receipts[1].status = "ok"
  /\ receipts[2].status = "panic: arithmetic underflow"
  /\ receipts[1].player = "p1" /\ Engaged("p1")
  /\ Strength["p1"] = 2 /\ Health[Encounter["p1"].monsters[1]] = 0

\* C5: flee never reverts, whether or not the player has an encounter, and
\* leaves the player without one.
FleeIdempotent ==
  [][\A p \in Players : Executes("flee", p) =>
       /\ NewReceipt.status = "ok"
       /\ Encounter'[p] = NoRecord]_vars

\* Two flees in a row by one player, the first from Engaged, both successful.
FleeIdempotentWitness ==
  /\ Len(receipts) = 3
  /\ InARow(1, "throwBall", "flee") /\ InARow(2, "flee", "flee")
  /\ \A i \in 1..3 : receipts[i].status = "ok"
  /\ receipts[1].rand % 2 = 1
  /\ Encounter[receipts[3].player] = NoRecord

\* C6: while an encounter exists its actionCount never decreases (attack
\* keeps it, a missed throw adds one), and a player without an encounter
\* has none after any call of the contract.
ActionCountMonotone ==
  [][\A p \in Players :
       /\ (Engaged(p) /\ Encounter'[p].actionCount # 0) =>
             /\ Encounter'[p].actionCount >= Encounter[p].actionCount
             /\ Executes("attack", p) => Encounter'[p] = Encounter[p]
             /\ Executes("throwBall", p) =>
                   Encounter'[p].actionCount = Encounter[p].actionCount + 1
       /\ ~Engaged(p) => Encounter'[p] = NoRecord]_vars

\* A miss, a second miss and an attack with the encounter still there at 3.
ActionCountMonotoneWitness ==
  /\ Len(receipts) = 3
  /\ InARow(1, "throwBall", "throwBall") /\ InARow(2, "throwBall", "attack")
  /\ \A i \in 1..3 : receipts[i].status = "ok"
  /\ Encounter[receipts[3].player].actionCount = 3

(* ------------------------------ the client ----------------------------- *)
\* Number of action calls one behaviour of the client makes.
MaxCalls == 2

\* The entity of the local player.
Me == "p1"
NoPosition == <<>>
NoMapConfig == [width |-> 0, height |-> 0]
\* The MapConfig value of the world the client plays on.
MapConfigValue == [width |-> 2, height |-> 2]
\* The cells holding an entity with the Obstruction component.
ObstructedCells == {<<1, 0>>}
\* The arguments moveTo and spawn are called with, and those of moveBy.
Targets == {<<1, 0>>, <<2, 2>>}
Deltas == {<<1, 0>>}

\* JavaScript's %: the remainder has the sign of the dividend.
JsRem(a, b) == IF a >= 0 THEN a % b ELSE 0 - ((0 - a) % b)

(* ---- overridable components: the override manager and effective reads ---- *)
\* The components wrapped, Position left out.
OverridableButPosition == {"Player", "Health", "Strength"}

\* The components setup() wraps in overridableComponent.
Overridable == {"Position", "Player", "Health", "Strength"}

Override(id, component, entity, value) ==
  [id |-> id, component |-> component, entity |-> entity, value |-> value]

\* component.addOverride(id, {entity, value}): the newest override is last.
addOverride(ovs, id, component, entity, value) ==
  Append(ovs, Override(id, component, entity, value))

\* component.removeOverride(id): an id that is not live changes nothing.
removeOverride(ovs, component, id) ==
  SelectSeq(ovs, LAMBDA o : ~(o.component = component /\ o.id = id))

LiveIds(ovs) == {ovs[i].id : i \in 1..Len(ovs)}

\* The live overrides of (component, entity), oldest first.
LiveFor(ovs, component, entity) ==
  SelectSeq(ovs, LAMBDA o : o.component = component /\ o.entity = entity)

\* getComponentValue(components[component], entity): the newest live override
\* of an overridable component, else the replica's authoritative value.
getComponentValue(component, entity) ==
  LET live == LiveFor(overrides, component, entity) IN
  IF component \in Overridable /\ Len(live) > 0
  THEN live[Len(live)].value
  ELSE store[component][entity]

\* uuid(): an id no other call of uuid() returns.
uuid(c, component) == <<c, component>>

(* ------------------------------- helpers ------------------------------- *)
\* A wrapPosition that hands the target back as it is.
wrapPositionIdentity(x, y) == <<x, y>>

wrapPosition(x, y) ==
  LET mapConfig == store.MapConfig["singleton"] IN
  <<JsRem(x + mapConfig.width, mapConfig.width), JsRem(y + mapConfig.height, mapConfig.height)>>

isObstructed(x, y) == <<x, y>> \in ObstructedCells

\* The position of a verb that has just been called.
NewCall(verb, x, y) ==
  [verb |-> verb, x |-> x, y |-> y, pc |-> "start", err |-> "", func |-> "", args |-> <<>>,
   tx |-> 0, ids |-> {}, before |-> LiveIds(overrides), encounter |-> NoRecord,
   result |-> "", waitFrom |-> 0]

Threw(call, err) == [call EXCEPT !.pc = "threw", !.err = err]
Returned(call, why) == [call EXCEPT !.pc = "returned", !.err = why]

\* worldSend(func, args) up to its first await: with no executor it throws
\* "no signer" (the caller's await rejects), else fastTxExecute is under way
\* and the operation, whose hash is the call's index, is on its way to the ledger.
worldSend(call, func, args) ==
  IF fastTxExecutor
  THEN [call EXCEPT !.pc = "sending", !.func = func, !.args = args, !.tx = Len(calls) + 1]
  ELSE [call EXCEPT !.pc = "nosigner", !.func = func, !.args = args]

Outcome(call, ovs) == [call |-> call, ovs |-> ovs]

(* ------------- the verbs, each up to its first suspension --------------- *)
\* moveTo without the check of the player's encounter.
moveToIgnoresEncounter(verb, x, y) ==
  LET c == Len(calls) + 1
      call == NewCall(verb, x, y)
  IN
  IF playerEntity = None THEN Outcome(Threw(call, "no player"), overrides)
  ELSE IF store.MapConfig["singleton"] = NoMapConfig
  THEN Outcome(Threw(call, "mapConfig no yet loaded or initialized"), overrides)
  ELSE
    LET w == wrapPosition(x, y) IN
    IF isObstructed(w[1], w[2])
    THEN Outcome(Returned(call, "cannot move to obstructed space"), overrides)
    ELSE
      LET positionId == uuid(c, "Position") IN
      Outcome([worldSend(call, "move", <<x, y>>) EXCEPT !.ids = {positionId}],
              addOverride(overrides, positionId, "Position", playerEntity, w))

moveTo(verb, x, y) ==
  LET c == Len(calls) + 1
      call == NewCall(verb, x, y)
  IN
  IF playerEntity = None THEN Outcome(Threw(call, "no player"), overrides)
  ELSE IF store.MapConfig["singleton"] = NoMapConfig
  THEN Outcome(Threw(call, "mapConfig no yet loaded or initialized"), overrides)
  ELSE
    LET w == wrapPosition(x, y) IN
    IF isObstructed(w[1], w[2])
    THEN Outcome(Returned(call, "cannot move to obstructed space"), overrides)
    ELSE IF store.Encounter[playerEntity] # NoRecord
    THEN Outcome(Returned(call, "cannot move while in encounter"), overrides)
    ELSE
      LET positionId == uuid(c, "Position") IN
      Outcome([worldSend(call, "move", <<x, y>>) EXCEPT !.ids = {positionId}],
              addOverride(overrides, positionId, "Position", playerEntity, w))

moveBy(deltaX, deltaY) ==
  LET call == NewCall("moveBy", deltaX, deltaY) IN
  IF playerEntity = None THEN Outcome(Threw(call, "no player"), overrides)
  ELSE
    LET playerPosition == getComponentValue("Position", playerEntity) IN
    IF playerPosition = NoPosition
    THEN Outcome(Returned(call, "cannot moveBy without a player position, not yet spawned?"), overrides)
    ELSE
      LET inner == moveTo("moveBy", playerPosition[1] + deltaX, playerPosition[2] + deltaY) IN
      Outcome([inner.call EXCEPT !.x = deltaX, !.y = deltaY], inner.ovs)

\* spawn that tests the replica's Player value, not the override-aware one.
spawnReadsReplica(x, y) ==
  LET c == Len(calls) + 1
      call == NewCall("spawn", x, y)
  IN
  IF playerEntity = None THEN Outcome(Threw(call, "no player"), overrides)
  ELSE IF store.Player[playerEntity] = TRUE
  THEN Outcome(Threw(call, "already spawned"), overrides)
  ELSE IF store.MapConfig["singleton"] = NoMapConfig
  THEN Outcome(Threw(call, "mapConfig no yet loaded or initialized"), overrides)
  ELSE
    LET w == wrapPosition(x, y) IN
    IF isObstructed(w[1], w[2])
    THEN Outcome(Returned(call, "cannot spawn on obstructed space"), overrides)
    ELSE
      LET positionId == uuid(c, "Position")
          playerId == uuid(c, "Player")
      IN
      Outcome([worldSend(call, "spawn", w) EXCEPT !.ids = {positionId, playerId}],
              addOverride(addOverride(overrides, positionId, "Position", playerEntity, w),
                          playerId, "Player", playerEntity, TRUE))

spawn(x, y) ==
  LET c == Len(calls) + 1
      call == NewCall("spawn", x, y)
  IN
  IF playerEntity = None THEN Outcome(Threw(call, "no player"), overrides)
  ELSE IF getComponentValue("Player", playerEntity) = TRUE
  THEN Outcome(Threw(call, "already spawned"), overrides)
  ELSE IF store.MapConfig["singleton"] = NoMapConfig
  THEN Outcome(Threw(call, "mapConfig no yet loaded or initialized"), overrides)
  ELSE
    LET w == wrapPosition(x, y) IN
    IF isObstructed(w[1], w[2])
    THEN Outcome(Returned(call, "cannot spawn on obstructed space"), overrides)
    ELSE
      LET positionId == uuid(c, "Position")
          playerId == uuid(c, "Player")
      IN
      Outcome([worldSend(call, "spawn", w) EXCEPT !.ids = {positionId, playerId}],
              addOverride(addOverride(overrides, positionId, "Position", playerEntity, w),
                          playerId, "Player", playerEntity, TRUE))

clientThrowBall ==
  LET call == NewCall("throwBall", 0, 0) IN
  IF playerEntity = None THEN Outcome(Threw(call, "no player"), overrides)
  ELSE
    LET encounter == store.Encounter[playerEntity] IN
    IF encounter = NoRecord THEN Outcome(Threw(call, "no encounter"), overrides)
    ELSE Outcome([worldSend(call, "throwBall", <<>>) EXCEPT !.encounter = encounter], overrides)

clientAttack == Outcome(worldSend(NewCall("attack", 0, 0), "attack", <<>>), overrides)

fleeEncounter == Outcome(worldSend(NewCall("fleeEncounter", 0, 0), "flee", <<>>), overrides)

(* ------------------- the verbs after their suspension ------------------- *)
\* The finally block of moveTo (and of the moveTo a moveBy awaits).
moveToFinally(c, ovs) == removeOverride(ovs, "Position", uuid(c, "Position"))

\* A finally block of spawn that releases the Position override only.
spawnFinallyKeepsPlayer(c, ovs) == removeOverride(ovs, "Position", uuid(c, "Position"))

\* The finally block of spawn.
spawnFinally(c, ovs) ==
  removeOverride(removeOverride(ovs, "Position", uuid(c, "Position")), "Player", uuid(c, "Player"))

\* What the call c runs on leaving its try block, on either exit.
Finally(c, ovs) ==
  IF calls[c].ids = {} THEN ovs
  ELSE IF calls[c].verb = "spawn" THEN spawnFinally(c, ovs)
  ELSE moveToFinally(c, ovs)

\* A predicate that accepts every hash.
StreamPredicateAnyHash(c, txHash) == TRUE

\* The predicate the call c hands to awaitStreamValue(txReduced$, ...).
StreamPredicate(c, txHash) == txHash = calls[c].tx

\* A classification that looks at the encounter's absence first.
throwBallResultFledFirst(c) ==
  LET encounter == calls[c].encounter
      hasCaught == \E i \in 1..Len(encounter.monsters) :
                      store.OwnedBy[encounter.monsters[i]] = playerEntity
  IN
  IF store.Encounter[playerEntity] = NoRecord THEN "fled"
  ELSE IF hasCaught THEN "caught"
  ELSE "miss"

\* throwBall's classification, from the encounter read before the submission
\* and the component values read once the wait has resolved.
throwBallResult(c) ==
  LET encounter == calls[c].encounter
      hasCaught == \E i \in 1..Len(encounter.monsters) :
                      store.OwnedBy[encounter.monsters[i]] = playerEntity
  IN
  IF hasCaught THEN "caught"
  ELSE IF store.Encounter[playerEntity] = NoRecord THEN "fled"
  ELSE "miss"

\* The call c once its awaitStreamValue has resolved.
AfterConfirmation(c) ==
  [calls[c] EXCEPT !.pc = "returned",
                   !.result = IF calls[c].verb = "throwBall" THEN throwBallResult(c) ELSE ""]

RECURSIVE FinallyAll(_, _)
\* The finally blocks of the calls in cs, applied to ovs.
FinallyAll(cs, ovs) ==
  IF cs = {} THEN ovs
  ELSE LET c == CHOOSE k \in cs : TRUE IN FinallyAll(cs \ {c}, Finally(c, ovs))

(* --------------------- the map system on the ledger --------------------- *)
\* move(x, y): checks the requested x, y, wraps them and stores the position;
\* it may revert (distance, obstruction, encounter).
move(player, x, y, ok) ==
  IF ok /\ Player[player]
  THEN /\ Success("move", player, 0)
       /\ Position' = [Position EXCEPT ![player] =
                         <<x % MapConfigValue.width, y % MapConfigValue.height>>]
       /\ UNCHANGED <<Encounter, OwnedBy, Monster, Health, Strength, Player>>
  ELSE Revert("move", player, 0, "reverted")

\* spawn(x, y): marks the player spawned and stores the position; it reverts
\* for a player already spawned.
spawnOnLedger(player, x, y, ok) ==
  IF ok /\ ~Player[player]
  THEN /\ Success("spawn", player, 0)
       /\ Player' = [Player EXCEPT ![player] = TRUE]
       /\ Position' = [Position EXCEPT ![player] =
                         <<x % MapConfigValue.width, y % MapConfigValue.height>>]
       /\ UNCHANGED <<Encounter, OwnedBy, Monster, Health, Strength>>
  ELSE Revert("spawn", player, 0, "reverted")

(* ------------------------------ the actions ----------------------------- *)
\* The replica the sync path builds from the ledger's tables.
Replica(mapConfig) ==
  [Position |-> [e \in {Me} |-> Position[e]],
   Player |-> [e \in {Me} |-> Player[e]],
   Encounter |-> [e \in {Me} |-> Encounter[e]],
   OwnedBy |-> OwnedBy,
   MapConfig |-> [e \in {"singleton"} |-> mapConfig]]

\* The client after setup(): the replica in step with the ledger; the player
\* not yet spawned, spawned, or in an encounter with the monsters m3 and m1.
\* A client with no executor, no player entity or no MapConfig yet is taken
\* with a spawned player that is in no encounter.
Init ==
  /\ fastTxExecutor \in BOOLEAN
  /\ playerEntity \in {None, Me}
  /\ Encounter \in {[p \in Players |-> IF p = Me THEN e ELSE NoRecord] :
                      e \in {NoRecord, [actionCount |-> 1, monsters |-> <<"m3", "m1">>]}}
  /\ Player \in {[p \in Players |-> IF p = Me THEN b ELSE FALSE] : b \in BOOLEAN}
  /\ Engaged(Me) => Player[Me]
  /\ Position = [p \in Players |-> IF Player[p] THEN <<0, 1>> ELSE NoPosition]
  /\ OwnedBy = [m \in Monsters |-> None]
  /\ Monster = [m \in Monsters |-> TRUE]
  /\ Health = [m \in Monsters |-> 1]
  /\ Strength = [p \in Players |-> 1]
  /\ receipts = <<>>
  /\ \E mapConfig \in {NoMapConfig, MapConfigValue} :
       /\ store = Replica(mapConfig)
       /\ \/ fastTxExecutor /\ playerEntity = Me /\ mapConfig = MapConfigValue
          \/ /\ Player[Me] /\ ~Engaged(Me)
             /\ \/ ~fastTxExecutor /\ playerEntity = Me /\ mapConfig = MapConfigValue
                \/ fastTxExecutor /\ playerEntity = None /\ mapConfig = MapConfigValue
                \/ fastTxExecutor /\ playerEntity = Me /\ mapConfig = NoMapConfig
  /\ overrides = <<>>
  /\ calls = <<>>
  /\ mempool = <<>>
  /\ mined = <<>>
  /\ emitted = <<>>
  /\ ops = <<>>

\* A call that also writes the value of its Position override into the replica.
StartWritesPosition(out) ==
  /\ Len(calls) < MaxCalls
  /\ calls' = Append(calls, out.call)
  /\ overrides' = out.ovs
  /\ mempool' = IF out.call.pc = "sending"
                THEN Append(mempool, [hash |-> out.call.tx, func |-> out.call.func, args |-> out.call.args])
                ELSE mempool
  /\ store' = IF Len(out.ovs) > Len(overrides) /\ out.ovs[Len(overrides) + 1].component = "Position"
              THEN [store EXCEPT !.Position[playerEntity] = out.ovs[Len(overrides) + 1].value]
              ELSE store
  /\ UNCHANGED <<ledgerVars, receipts, fastTxExecutor, playerEntity, mined, emitted, ops>>

\* A verb is called and runs up to its first suspension; the operation it
\* hands to fastTxExecute joins the signer's queue at the ledger.
Start(out) ==
  /\ Len(calls) < MaxCalls
  /\ calls' = Append(calls, out.call)
  /\ overrides' = out.ovs
  /\ mempool' = IF out.call.pc = "sending"
                THEN Append(mempool, [hash |-> out.call.tx, func |-> out.call.func, args |-> out.call.args])
                ELSE mempool
  /\ UNCHANGED <<ledgerVars, receipts, fastTxExecutor, playerEntity, store, mined, emitted, ops>>

CallMoveTo == \E t \in Targets : Start(moveTo("moveTo", t[1], t[2]))
CallMoveBy == \E d \in Deltas : Start(moveBy(d[1], d[2]))
CallSpawn == \E t \in Targets : Start(spawn(t[1], t[2]))
CallThrowBall == Start(clientThrowBall)
CallAttack == Start(clientAttack)
CallFleeEncounter == Start(fleeEncounter)

\* The await of worldSend rejects in call c with "no signer": the verb's
\* finally runs and the verb throws.
NoSigner ==
  \E c \in DOMAIN calls :
    /\ calls[c].pc = "nosigner"
    /\ calls' = [calls EXCEPT ![c] = Threw(calls[c], "no signer")]
    /\ overrides' = Finally(c, overrides)
    /\ UNCHANGED <<ledgerVars, receipts, fastTxExecutor, playerEntity, store, netVars>>

\* fastTxExecute fails in call c before its operation reaches the ledger:
\* worldSend rethrows, the verb's finally runs and the verb throws.
FastTxExecuteFails ==
  \E c \in DOMAIN calls :
    /\ calls[c].pc = "sending"
    /\ \E i \in 1..Len(mempool) : mempool[i].hash = calls[c].tx
    /\ mempool' = SelectSeq(mempool, LAMBDA tx : tx.hash # calls[c].tx)
    /\ calls' = [calls EXCEPT ![c] = Threw(calls[c], "send failed")]
    /\ overrides' = Finally(c, overrides)
    /\ UNCHANGED <<ledgerVars, receipts, fastTxExecutor, playerEntity, store, mined, emitted, ops>>

\* The transaction promise worldSend awaits rejects in call c, the operation
\* being with the ledger: worldSend rethrows as above.
TxPromiseFails ==
  \E c \in DOMAIN calls :
    /\ calls[c].pc = "sending"
    /\ calls' = [calls EXCEPT ![c] = Threw(calls[c], "tx failed")]
    /\ overrides' = Finally(c, overrides)
    /\ UNCHANGED <<ledgerVars, receipts, fastTxExecutor, playerEntity, store, netVars>>

\* worldSend returns the transaction to call c, which starts to wait on txReduced$.
WorldSendReturns ==
  \E c \in DOMAIN calls :
    /\ calls[c].pc = "sending"
    /\ calls' = [calls EXCEPT ![c].pc = "waiting", ![c].waitFrom = Len(emitted)]
    /\ UNCHANGED <<ledgerVars, receipts, fastTxExecutor, playerEntity, store, overrides, netVars>>

\* The ledger executes the signer's transactions in the order of submission.
Mined(func) ==
  /\ Len(mempool) > 0
  /\ Head(mempool).func = func
  /\ mempool' = Tail(mempool)
  /\ mined' = Append(mined, Head(mempool).hash)
  /\ UNCHANGED <<clientVars, emitted, ops>>

MineThrowBall == Mined("throwBall") /\ \E rand \in 0..MaxRand : throwBall(Me, rand)
MineFlee == Mined("flee") /\ flee(Me)
MineAttack == Mined("attack") /\ attack(Me)
MineMove ==
  Mined("move") /\ \E ok \in BOOLEAN : move(Me, Head(mempool).args[1], Head(mempool).args[2], ok)
MineSpawn ==
  Mined("spawn") /\ \E ok \in BOOLEAN : spawnOnLedger(Me, Head(mempool).args[1], Head(mempool).args[2], ok)

\* The sync path applies the ledger's component values to the replica.
Sync ==
  /\ store # Replica(store.MapConfig["singleton"])
  /\ store' = Replica(store.MapConfig["singleton"])
  /\ UNCHANGED <<ledgerVars, receipts, fastTxExecutor, playerEntity, overrides, calls, netVars>>

\* txReduced$ emits the hash of the next executed transaction; every wait whose
\* predicate accepts it resolves and its verb runs to its end.
Emit ==
  /\ Len(emitted) < Len(mined)
  /\ LET txHash == mined[Len(emitted) + 1]
         resolved == {c \in DOMAIN calls : calls[c].pc = "waiting" /\ StreamPredicate(c, txHash)}
     IN
     /\ emitted' = Append(emitted, txHash)
     /\ calls' = [c \in DOMAIN calls |-> IF c \in resolved THEN AfterConfirmation(c) ELSE calls[c]]
     /\ overrides' = FinallyAll(resolved, overrides)
     /\ UNCHANGED <<ledgerVars, receipts, fastTxExecutor, playerEntity, store, mempool, mined, ops>>

Next ==
  \/ CallMoveTo \/ CallMoveBy \/ CallSpawn \/ CallThrowBall \/ CallAttack \/ CallFleeEncounter
  \/ NoSigner \/ FastTxExecuteFails \/ TxPromiseFails \/ WorldSendReturns
  \/ MineThrowBall \/ MineFlee \/ MineAttack \/ MineMove \/ MineSpawn
  \/ Sync \/ Emit

Spec == Init /\ [][Next]_vars

(* ------------------------ properties of the client --------------------- *)
Settled(c) == calls[c].pc \in {"returned", "threw"}
\* The ids of the overrides added by calls that have not settled.
PendingIds == UNION {calls[c].ids : c \in {d \in DOMAIN calls : ~Settled(d)}}
\* The step is the one in which call c returns or throws.
SettlesNow(c) ==
  /\ c \in DOMAIN calls'
  /\ calls'[c].pc \in {"returned", "threw"}
  /\ c \in DOMAIN calls => ~Settled(c)

\* C1 as stated: when a call returns or throws, the set of live overrides is
\* the set that was live when the call was made.
OverrideSetRestored ==
  [][\A c \in DOMAIN calls' :
       SettlesNow(c) => LiveIds(overrides') = calls'[c].before]_vars

\* C1 as amended: every override a call added is removed by the time the call
\* returns or throws, so the live overrides are at any time exactly those of
\* the calls that have not settled, each live once.
OverrideHygiene ==
  /\ LiveIds(overrides) = PendingIds
  /\ Len(overrides) = Cardinality(PendingIds)
  /\ \A c \in DOMAIN calls : Settled(c) => calls[c].ids \cap LiveIds(overrides) = {}

\* A spawn that added its two overrides and threw, while a later moveTo is
\* pending with its override live.
OverrideHygieneWitness ==
  /\ Len(calls) = 2
  /\ calls[1].verb = "spawn" /\ calls[1].pc = "threw" /\ Cardinality(calls[1].ids) = 2
  /\ calls[2].verb = "moveTo" /\ ~Settled(2)
  /\ calls[1].before = {}
  /\ LiveIds(overrides) = calls[2].ids /\ calls[2].ids # {}

\* The precondition failures of the verb being called with x, y.
PreconditionFails(verb, x, y) ==
  LET loaded == store.MapConfig["singleton"] # NoMapConfig
      player == playerEntity # None
      target == IF verb = "moveBy" /\ player /\ getComponentValue("Position", playerEntity) # NoPosition
                THEN <<getComponentValue("Position", playerEntity)[1] + x,
                       getComponentValue("Position", playerEntity)[2] + y>>
                ELSE <<x, y>>
  IN
  \/ ~fastTxExecutor
  \/ ~player
  \/ verb \in {"throwBall", "attack"} /\ player /\ store.Encounter[playerEntity] = NoRecord
  \/ verb = "spawn" /\ player /\ getComponentValue("Player", playerEntity) = TRUE
  \/ /\ verb \in {"moveTo", "moveBy", "spawn"} /\ loaded
     /\ isObstructed(wrapPosition(target[1], target[2])[1], wrapPosition(target[1], target[2])[2])

\* C7: a verb called with a failing precondition (no signer, no player, not
\* in an encounter, already spawned, obstructed target) ends at once, adds no
\* override and hands no operation to the executor.
PreconditionFailureHasNoEffect ==
  [][(Len(calls') = Len(calls) + 1) =>
       LET call == calls'[Len(calls')] IN
       PreconditionFails(call.verb, call.x, call.y) =>
         /\ overrides' = overrides
         /\ mempool' = mempool
         /\ call.pc \in {"threw", "returned", "nosigner"}]_vars

\* The emission the step makes on txReduced$, 0 when it makes none.
EmittedNow == IF Len(emitted') = Len(emitted) + 1 THEN emitted'[Len(emitted')] ELSE 0

\* C10: a call that waits on txReduced$ leaves the wait only in a step that
\* emits its transaction's hash, and leaves it in the first such step; a
\* returned call that waited owes it to one emission of its hash made after
\* its wait began, and a call still waiting has seen none since then.
ConfirmationWait ==
  /\ [][\A c \in DOMAIN calls : calls[c].pc = "waiting" =>
          /\ calls'[c].pc # "waiting" => (EmittedNow = calls[c].tx /\ calls'[c].pc = "returned")
          /\ EmittedNow = calls[c].tx => calls'[c].pc = "returned"]_vars
  /\ [](\A c \in DOMAIN calls :
          LET after == {i \in 1..Len(emitted) : i > calls[c].waitFrom /\ emitted[i] = calls[c].tx} IN
          /\ (calls[c].pc = "returned" /\ calls[c].tx # 0) => Cardinality(after) = 1
          /\ calls[c].pc = "waiting" => after = {})

\* One call returned on the emission of its hash, made after an emission of
\* another hash it waited through; the other call began to wait only after
\* its own hash had been emitted and is still waiting.
ConfirmationWaitWitness ==
  /\ Len(calls) = 2 /\ Len(emitted) = 2
  /\ calls[2].pc = "returned" /\ emitted[2] = calls[2].tx /\ calls[2].waitFrom = 0
  /\ calls[1].pc = "waiting" /\ emitted[1] = calls[1].tx /\ calls[1].waitFrom = 2

(* -------------------- the override manager on its own ------------------- *)
\* Number of override ids in use, and of addOverride/removeOverride calls.
MaxIds == 2
MaxOps == 3
\* The values the Position component takes here.
Cells == {<<0, 0>>, <<0, 1>>, <<1, 1>>}

OverrideInit ==
  /\ fastTxExecutor = TRUE
  /\ playerEntity = Me
  /\ \E v \in Cells :
       store = [Position |-> [e \in Players |-> v],
                Player |-> [e \in Players |-> TRUE],
                Encounter |-> [e \in Players |-> NoRecord],
                OwnedBy |-> [m \in Monsters |-> None],
                MapConfig |-> [e \in {"singleton"} |-> MapConfigValue]]
  /\ overrides = <<>>
  /\ ops = <<>>
  /\ calls = <<>>
  /\ Encounter = [p \in Players |-> NoRecord]
  /\ OwnedBy = [m \in Monsters |-> None]
  /\ Monster = [m \in Monsters |-> TRUE]
  /\ Health = [m \in Monsters |-> 1]
  /\ Strength = [p \in Players |-> 1]
  /\ Position = [p \in Players |-> <<0, 0>>]
  /\ Player = [p \in Players |-> TRUE]
  /\ receipts = <<>>
  /\ mempool = <<>>
  /\ mined = <<>>
  /\ emitted = <<>>

OverrideOp(op, id, entity, value) == [op |-> op, id |-> id, entity |-> entity, value |-> value]

\* components.Position.addOverride(id, {entity, value}) with an id not in use.
AddOverride ==
  /\ Len(ops) < MaxOps
  /\ \E k \in 1..MaxIds, entity \in Players, value \in Cells :
       LET id == uuid(k, "Position") IN
       /\ id \notin LiveIds(overrides)
       /\ overrides' = addOverride(overrides, id, "Position", entity, value)
       /\ ops' = Append(ops, OverrideOp("add", id, entity, value))
  /\ UNCHANGED <<ledgerVars, receipts, fastTxExecutor, playerEntity, store, calls, mempool, mined, emitted>>

\* components.Position.removeOverride(id), whether or not id is live.
RemoveOverride ==
  /\ Len(ops) < MaxOps
  /\ \E k \in 1..MaxIds :
       LET id == uuid(k, "Position") IN
       /\ overrides' = removeOverride(overrides, "Position", id)
       /\ ops' = Append(ops, OverrideOp("remove", id, Me, <<>>))
  /\ UNCHANGED <<ledgerVars, receipts, fastTxExecutor, playerEntity, store, calls, mempool, mined, emitted>>

\* The sync path stores a new authoritative Position of an entity.
SetAuthoritative ==
  /\ \E entity \in Players, value \in Cells :
       /\ store.Position[entity] # value
       /\ store' = [store EXCEPT !.Position[entity] = value]
  /\ UNCHANGED <<ledgerVars, receipts, fastTxExecutor, playerEntity, overrides, calls, netVars>>

OverrideNext == AddOverride \/ RemoveOverride \/ SetAuthoritative

OverrideSpec == OverrideInit /\ [][OverrideNext]_vars

\* The adds in ops to entity whose id no later op removes.
StandingAdds(entity) ==
  {i \in 1..Len(ops) :
     /\ ops[i].op = "add" /\ ops[i].entity = entity
     /\ \A j \in (i + 1)..Len(ops) : ~(ops[j].op = "remove" /\ ops[j].id = ops[i].id)}

Latest(S) == CHOOSE i \in S : \A j \in S : j <= i

\* C9: after any addOverride/removeOverride calls, the read of (entity,
\* Position) is the value of the last add to that entity not removed since,
\* and the authoritative value when there is none; the removal of an id that
\* is not live leaves the overrides as they are.
EffectiveReadPrecedence ==
  /\ [](\A entity \in Players :
          getComponentValue("Position", entity) =
            IF StandingAdds(entity) = {} THEN store.Position[entity]
            ELSE ops[Latest(StandingAdds(entity))].value)
  /\ [][(Len(ops') = Len(ops) + 1 /\ ops'[Len(ops')].op = "remove"
           /\ ops'[Len(ops')].id \notin LiveIds(overrides)) => overrides' = overrides]_vars

\* O1 then O2 added to the player, O2 removed: the read is O1's value, which
\* differs from O2's and from the authoritative one.
EffectiveReadPrecedenceWitness ==
  /\ Len(ops) = 3
  /\ ops[1].op = "add" /\ ops[2].op = "add" /\ ops[3].op = "remove"
  /\ ops[1].entity = Me /\ ops[2].entity = Me
  /\ ops[3].id = ops[2].id
  /\ ops[1].value # ops[2].value /\ ops[1].value # store.Position[Me]
  /\ getComponentValue("Position", Me) = ops[1].value

(* --------------------------- movement rejection -------------------------- *)
\* The step is a call of verb; NewestCall is the call it makes.
Calls(verb) == Len(calls') = Len(calls) + 1 /\ calls'[Len(calls')].verb = verb
NewestCall == calls'[Len(calls')]

\* C11: moveTo whose wrapped target is a cell with an obstruction, or which is
\* called while the replica holds an encounter of the player, returns at once:
\* it hands no operation to the executor, adds no override and leaves the
\* replica store as it was.
MovementRejection ==
  [][(/\ Calls("moveTo")
      /\ playerEntity # None
      /\ store.MapConfig["singleton"] # NoMapConfig
      /\ \/ isObstructed(wrapPosition(NewestCall.x, NewestCall.y)[1],
                         wrapPosition(NewestCall.x, NewestCall.y)[2])
         \/ store.Encounter[playerEntity] # NoRecord)
     => /\ NewestCall.pc = "returned"
        /\ NewestCall.tx = 0 /\ NewestCall.ids = {}
        /\ mempool' = mempool
        /\ overrides' = overrides
        /\ store' = store]_vars

\* A moveTo onto the obstructed cell (1, 0) and one onto the free cell (0, 0)
\* by a player in an encounter, both turned away while a signer is bound.
MovementRejectionWitness ==
  /\ Len(calls) = 2 /\ fastTxExecutor
  /\ calls[1].verb = "moveTo" /\ calls[1].err = "cannot move to obstructed space"
  /\ calls[2].verb = "moveTo" /\ calls[2].err = "cannot move while in encounter"
  /\ wrapPosition(calls[2].x, calls[2].y) = <<0, 0>>
  /\ mempool = <<>> /\ mined = <<>> /\ overrides = <<>>

(* ------------------- one call on a map of any size ---------------------- *)
\* Targets are drawn from -MaxCoord..MaxCoord, map sizes from 1..MaxDim.
MaxCoord == 3
MaxDim == 2
Coords == (0 - MaxCoord)..MaxCoord

\* The client after setup() on a map of any width and height, with a signer
\* and a player entity, the player spawned or not, in no encounter.
WrapInit ==
  /\ fastTxExecutor = TRUE
  /\ playerEntity = Me
  /\ Encounter = [p \in Players |-> NoRecord]
  /\ Player \in {[p \in Players |-> IF p = Me THEN b ELSE FALSE] : b \in BOOLEAN}
  /\ Position = [p \in Players |-> IF Player[p] THEN <<0, 0>> ELSE NoPosition]
  /\ OwnedBy = [m \in Monsters |-> None]
  /\ Monster = [m \in Monsters |-> TRUE]
  /\ Health = [m \in Monsters |-> 1]
  /\ Strength = [p \in Players |-> 1]
  /\ receipts = <<>>
  /\ \E width \in 1..MaxDim, height \in 1..MaxDim :
       store = Replica([width |-> width, height |-> height])
  /\ overrides = <<>>
  /\ calls = <<>>
  /\ mempool = <<>>
  /\ mined = <<>>
  /\ emitted = <<>>
  /\ ops = <<>>

WrapMoveTo == calls = <<>> /\ \E x \in Coords, y \in Coords : Start(moveTo("moveTo", x, y))
WrapSpawn == calls = <<>> /\ \E x \in Coords, y \in Coords : Start(spawn(x, y))

WrapNext == WrapMoveTo \/ WrapSpawn

WrapSpec == WrapInit /\ [][WrapNext]_vars

Width == store.MapConfig["singleton"].width
Height == store.MapConfig["singleton"].height
\* What moveTo(x + dx, y + dy) does from the state the step starts in.
Shifted(dx, dy) == moveTo("moveTo", NewestCall.x + dx, NewestCall.y + dy)
\* The call and the shifted one take the same decision and leave the same overrides.
SameDecisionAndOverride(dx, dy) ==
  /\ Shifted(dx, dy).call.pc = NewestCall.pc
  /\ Shifted(dx, dy).call.err = NewestCall.err
  /\ Shifted(dx, dy).call.ids = NewestCall.ids
  /\ Shifted(dx, dy).ovs = overrides'

\* C12 as stated, for the pair it names: moveTo(W, 0) and moveTo(0, 0), from
\* the same state, take the same obstruction decision, install the same
\* Position override and hand the same operation to the executor.
MoveToWrapEquivalent ==
  [][(Calls("moveTo") /\ NewestCall.x = 0 /\ NewestCall.y = 0) =>
       /\ SameDecisionAndOverride(Width, 0)
       /\ Shifted(Width, 0).call.func = NewestCall.func
       /\ Shifted(Width, 0).call.args = NewestCall.args]_vars

\* C12 as amended: for x >= -W and y >= -H, moveTo(x, y) and the calls with
\* W added to x, H added to y, or both (moveTo(0, 0) and moveTo(W, 0) among
\* them) take the same obstruction decision and install the same Position
\* override; when they submit, all submit a move, each with the coordinates
\* it was called with, not the wrapped ones.
MoveToWrapEquivalentButArgs ==
  [][(Calls("moveTo") /\ NewestCall.x >= 0 - Width /\ NewestCall.y >= 0 - Height) =>
       \A d \in {<<Width, 0>>, <<0, Height>>, <<Width, Height>>} :
         /\ SameDecisionAndOverride(d[1], d[2])
         /\ Shifted(d[1], d[2]).call.func = NewestCall.func
         /\ NewestCall.pc = "sending" =>
              /\ NewestCall.func = "move"
              /\ NewestCall.args = <<NewestCall.x, NewestCall.y>>
              /\ Shifted(d[1], d[2]).call.args = <<NewestCall.x + d[1], NewestCall.y + d[2]>>
              /\ mempool'[Len(mempool')].args = NewestCall.args]_vars

\* moveTo(0, 0) was called on a 2 x 2 map: like moveTo(2, 0) it put the player
\* at (0, 0) by an override and submitted a move, with the arguments (0, 0).
MoveToWrapEquivalentWitness ==
  /\ Len(calls) = 1 /\ calls[1].verb = "moveTo"
  /\ calls[1].x = 0 /\ calls[1].y = 0
  /\ Width = 2 /\ Height = 2
  /\ calls[1].pc = "sending"
  /\ Len(overrides) = 1 /\ overrides[1].value = <<0, 0>>
  /\ mempool[1].args = <<0, 0>>

\* C15: whatever the target of moveTo or spawn, negative or beyond the map,
\* the wrapped coordinates, which the obstruction check and the Position
\* override use, satisfy 0 <= wrappedX < W and 0 <= wrappedY < H.
WrappedInRange ==
  [][(Calls("moveTo") \/ Calls("spawn")) =>
       LET w == wrapPosition(NewestCall.x, NewestCall.y) IN
       /\ 0 <= w[1] /\ w[1] < Width
       /\ 0 <= w[2] /\ w[2] < Height
       /\ \A i \in 1..Len(overrides') :
            overrides'[i].component = "Position" =>
              /\ 0 <= overrides'[i].value[1] /\ overrides'[i].value[1] < Width
              /\ 0 <= overrides'[i].value[2] /\ overrides'[i].value[2] < Height]_vars

(* ------------------------- the result of throwBall ----------------------- *)
\* The step is the one in which the wait of call c resolves.
Resolves(c) == calls[c].pc = "waiting" /\ calls'[c].pc = "returned"
\* The monsters of the encounter value call c read before it submitted.
MonstersRead(c) == {calls[c].encounter.monsters[i] : i \in 1..Len(calls[c].encounter.monsters)}

\* C13: throwBall keeps the encounter value it read from the replica before
\* submitting; when its wait resolves it returns "caught" if the replica then
\* gives the player as owner of a monster of that value, else "fled" if the
\* replica holds no encounter of the player, else "miss": the result is a
\* function of these reads alone.
ThrowBallClassification ==
  [][/\ Calls("throwBall") /\ NewestCall.pc \in {"sending", "nosigner"} =>
          NewestCall.encounter = store.Encounter[playerEntity]
     /\ \A c \in DOMAIN calls : (calls[c].verb = "throwBall" /\ Resolves(c)) =>
          LET caught == \E m \in MonstersRead(c) : store'.OwnedBy[m] = playerEntity
              gone == store'.Encounter[playerEntity] = NoRecord
          IN
          /\ calls'[c].encounter = calls[c].encounter
          /\ calls'[c].result = "caught" <=> caught
          /\ calls'[c].result = "fled" <=> (~caught /\ gone)
          /\ calls'[c].result = "miss" <=> (~caught /\ ~gone)]_vars

\* A throw that returned "miss" and a second one that returned "caught", the
\* replica then holding no encounter of the player.
ThrowBallClassificationWitness ==
  /\ Len(calls) = 2
  /\ calls[1].verb = "throwBall" /\ calls[1].result = "miss"
  /\ calls[2].verb = "throwBall" /\ calls[2].result = "caught"
  /\ store.Encounter[Me] = NoRecord

(* ----------------------- the writer of the replica ----------------------- *)
\* C14: a step in which a verb is called, runs on or settles, or in which an
\* override is added or removed, leaves the replica store as it is; the store
\* changes only in a step of the sync path, which sets it to the ledger's
\* component values and touches no call and no override.
SingleWriter ==
  [][/\ (calls' # calls \/ overrides' # overrides) => store' = store
     /\ store' # store =>
          /\ store' = Replica(store.MapConfig["singleton"])'
          /\ UNCHANGED <<calls, overrides, mempool, emitted>>]_vars

\* A moveTo that added its override, was confirmed and returned; only the
\* sync has moved the replica's position, to the cell the ledger stored.
SingleWriterWitness ==
  /\ Len(calls) >= 1
  /\ calls[1].verb = "moveTo" /\ calls[1].pc = "returned" /\ calls[1].ids # {}
  /\ overrides = <<>>
  /\ store.Position[Me] = <<0, 0>> /\ Position[Me] = <<0, 0>>

(* ------------------------------ spawn guard ------------------------------ *)
\* The spawn calls that have submitted and not settled.
PendingSpawns == {c \in DOMAIN calls : calls[c].verb = "spawn" /\ ~Settled(c) /\ calls[c].ids # {}}
\* The spawn operations handed to the ledger and not yet executed.
QueuedSpawns == {i \in 1..Len(mempool) : mempool[i].func = "spawn"}
\* A spawn called while another is pending throws "already spawned", adds no
\* override and submits nothing.
SecondSpawnRejected ==
  [][(Calls("spawn") /\ PendingSpawns # {}) =>
       /\ \A c \in PendingSpawns : uuid(c, "Player") \in LiveIds(overrides)
       /\ NewestCall.pc = "threw" /\ NewestCall.err = "already spawned"
       /\ NewestCall.tx = 0 /\ NewestCall.ids = {}
       /\ overrides' = overrides
       /\ mempool' = mempool]_vars

\* C16 as stated: a spawn called while another is pending is rejected as
\* above; hence at most one spawn operation of the player is with the ledger,
\* submitted and not yet executed, at a time.
OneSpawnOutstanding ==
  /\ SecondSpawnRejected
  /\ [](Cardinality(QueuedSpawns) <= 1)

\* C16 as amended: a spawn called while another is pending is rejected as
\* above; hence at most one spawn call is pending at a time, and every spawn
\* operation with the ledger beyond one comes from a call that has thrown.
SpawnGuardedByEffectiveView ==
  /\ SecondSpawnRejected
  /\ [](/\ Cardinality(PendingSpawns) <= 1
        /\ Cardinality({i \in QueuedSpawns : \E c \in DOMAIN calls :
                           calls[c].tx = mempool[i].hash /\ calls[c].pc # "threw"}) <= 1)

\* A spawn waiting for its confirmation, its Player override live, and a
\* second spawn that threw "already spawned" though the replica has no
\* Player value yet.
SpawnGuardedByEffectiveViewWitness ==
  /\ Len(calls) = 2
  /\ calls[1].verb = "spawn" /\ calls[1].pc = "waiting"
  /\ calls[2].verb = "spawn" /\ calls[2].err = "already spawned"
  /\ store.Player[Me] = FALSE
  /\ uuid(1, "Player") \in LiveIds(overrides)

(* ------------------ throwBall's result and the ledger -------------------- *)
RECURSIVE ActionCountAfter(_)
\* The player's actionCount after the first k executed calls, the encounter
\* having started at actionCount 1.
ActionCountAfter(k) ==
  IF k = 0 THEN 1
  ELSE LET r == receipts[k]
           ac == ActionCountAfter(k - 1)
       IN
       IF r.status # "ok" THEN ac
       ELSE IF r.func = "flee" THEN 0
       ELSE IF r.func = "throwBall"
            THEN IF r.rand % 2 = 0 \/ ac > 2 THEN 0 ELSE ac + 1
       ELSE ac

\* What the k-th executed call, a throwBall, did on the ledger.
ThrowEffect(k) ==
  IF receipts[k].status # "ok" THEN "rejected"
  ELSE IF receipts[k].rand % 2 = 0 THEN "caught"
  ELSE IF ActionCountAfter(k - 1) > 2 THEN "fled"
  ELSE "miss"

\* The place of call c's operation among the executed calls.
ExecutedAt(c) == CHOOSE k \in 1..Len(mined) : mined[k] = calls[c].tx

\* C17: whatever the interleaving of execution, sync, confirmation and the
\* player's other actions, a throwBall that returns "caught", "fled" or "miss"
\* returns what its own throw did on the ledger: the capture, the escape, or
\* a miss that was executed (never a throw the ledger rejected).
ThrowBallAgreesWithLedger ==
  \A c \in DOMAIN calls :
    (calls[c].verb = "throwBall" /\ calls[c].pc = "returned") =>
      calls[c].result = ThrowEffect(ExecutedAt(c))

(* ----------------------- confirmed actions complete ---------------------- *)
\* The event loop runs every continuation that is ready, the ledger executes
\* what it was handed, the stream emits what was executed and the sync path
\* applies it; failures of a submission need not happen.
FairSpec ==
  /\ Spec
  /\ WF_vars(NoSigner) /\ WF_vars(WorldSendReturns)
  /\ WF_vars(MineThrowBall) /\ WF_vars(MineFlee) /\ WF_vars(MineAttack)
  /\ WF_vars(MineMove) /\ WF_vars(MineSpawn)
  /\ WF_vars(Sync) /\ WF_vars(Emit)

\* txReduced$ has emitted the hash of call c's operation.
Confirmed(c) ==
  /\ c \in DOMAIN calls /\ calls[c].tx # 0
  /\ \E i \in 1..Len(emitted) : emitted[i] = calls[c].tx

\* C18: once txReduced$ has emitted the hash of the operation a moveTo or a
\* spawn submitted, the call eventually settles and its overrides are gone,
\* also when the emission comes after the submission and before the call
\* starts to wait on the stream.
ConfirmedActionsComplete ==
  \A c \in 1..MaxCalls :
    (Confirmed(c) /\ calls[c].verb \in {"moveTo", "spawn"})
      ~> (c \in DOMAIN calls /\ Settled(c) /\ calls[c].ids \cap LiveIds(overrides) = {})

(* ------------------- the encounter's bound and flee's frame -------------- *)
\* The successful throws of player p executed so far.
ThrowsOf(p) ==
  {i \in 1..Len(receipts) :
     receipts[i].func = "throwBall" /\ receipts[i].player = p /\ receipts[i].status = "ok"}

\* C19: an encounter that starts at actionCount 1 has its actionCount in
\* {1, 2, 3} for as long as it exists, whatever the derived values; it is
\* over once the player has made three successful throws, and a throw at
\* actionCount 3 ends it.
BoundedEncounter ==
  /\ [](\A p \in Players :
          /\ Encounter[p].actionCount \in 0..3
          /\ Encounter[p] # NoRecord => Encounter[p].actionCount \in 1..3
          /\ Cardinality(ThrowsOf(p)) >= 3 => Encounter[p] = NoRecord)
  /\ [][\A p \in Players :
          (Executes("throwBall", p) /\ Encounter[p].actionCount = 3) =>
             /\ NewReceipt.status = "ok"
             /\ Encounter'[p] = NoRecord]_vars

\* Two misses took the count to 3 and a third throw, a capture, ended the
\* encounter.
BoundedEncounterWitness ==
  /\ Len(receipts) = 3
  /\ \A i \in 1..3 : receipts[i].func = "throwBall" /\ receipts[i].player = "p1"
                     /\ receipts[i].status = "ok"
  /\ receipts[1].rand % 2 = 1 /\ receipts[2].rand % 2 = 1 /\ receipts[3].rand % 2 = 0
  /\ Encounter["p1"] = NoRecord
  /\ \E m \in Monsters : OwnedBy[m] = "p1"

\* C20: flee changes the caller's encounter record and nothing else: every
\* Monster record, owner (unset stays unset), health and strength, and the
\* encounter of every other player are as before.
FleeFrame ==
  [][\A p \in Players : Executes("flee", p) =>
       /\ UNCHANGED <<OwnedBy, Monster, Health, Strength, Position, Player>>
       /\ \A q \in Players \ {p} : Encounter'[q] = Encounter[q]
       /\ \A m \in Monsters : OwnedBy[m] = None => OwnedBy'[m] = None]_vars

\* p1 missed once and fled while p2 is in an encounter: every monster is
\* still there and unowned, and p2's encounter is untouched.
FleeFrameWitness ==
  /\ Len(receipts) = 2
  /\ receipts[1] = Receipt("throwBall", "p1", 1, "ok")
  /\ receipts[2] = Receipt("flee", "p1", 0, "ok")
  /\ Encounter["p1"] = NoRecord
  /\ Encounter["p2"].actionCount = 1
  /\ \A m \in Monsters : Monster[m] /\ OwnedBy[m] = None

====
